---- MODULE Spec2Model ----
(***************************************************************************)
(* Model of the coalescing interval set of advent-of-code-2022-rust:       *)
(* src/range.rs (interval arithmetic on (i32, i32) pairs) and              *)
(* src/rangeset.rs (RangeSet, a flat sorted Vec<i32> of boundaries).       *)
(*                                                                         *)
(* Vec indices are kept 0-based as in the source; At(s, i) reads s[i].     *)
(* A range (i32, i32) is a pair <<low, high>>; r[1] is .0 and r[2] is .1.  *)
(* Values stay far from the i32 limits, so arithmetic does not wrap.       *)
(***************************************************************************)
EXTENDS Integers, Sequences, FiniteSets, TLC

\* Largest boundary value a caller passes; boundaries range over 0..MaxVal.
MaxVal == 5

Values == 0..MaxVal

\* Non-empty well-formed ranges (low < high) over the bounded domain.
Ranges == {r \in Values \X Values : r[1] < r[2]}

At(s, i) == s[i + 1]

Min(a, b) == IF a < b THEN a ELSE b

Max(a, b) == IF a > b THEN a ELSE b

(***************************************************************************)
(* src/range.rs: impl Ranging for (i32, i32)                               *)
(***************************************************************************)
\* range_size counting both ends of the range.
range_size_bug(r) == r[2] - r[1] + 1

range_size(r) == r[2] - r[1]

overlaps(a, other) ==
    IF other[2] < a[1] THEN FALSE
    ELSE IF other[1] > a[2] THEN FALSE
    ELSE TRUE

\* contains_inclusive with the strict comparisons of contains_exclusive.
contains_inclusive_bug(a, other) == a[1] < other[1] /\ a[2] > other[2]

contains_inclusive(a, other) == a[1] <= other[1] /\ a[2] >= other[2]

contains_exclusive(a, other) == a[1] < other[1] /\ a[2] > other[2]

touches(a, other) ==
    IF other[2] = a[1] THEN TRUE
    ELSE IF other[1] = a[2] THEN TRUE
    ELSE FALSE

merge(a, other) == <<Min(a[1], other[1]), Max(a[2], other[2])>>

\* Ranging::remove with the last test comparing the highs instead of the lows.
range_remove_lower_bug(a, cut) ==
    IF contains_inclusive(cut, a) THEN [st |-> "ok", pieces |-> <<>>]
    ELSE IF contains_exclusive(a, cut)
        THEN [st |-> "ok", pieces |-> << <<a[1], cut[1]>>, <<cut[2], a[2]>> >>]
    ELSE IF a[2] > cut[2] THEN [st |-> "ok", pieces |-> << <<cut[2], a[2]>> >>]
    ELSE IF a[2] < cut[2] THEN [st |-> "ok", pieces |-> << <<a[1], cut[1]>> >>]
    ELSE [st |-> "panic", pieces |-> <<>>]

\* Ranging::remove with the two pieces of a split ending and starting at the
\* wrong ends of cut.
range_remove_split_bug(a, cut) ==
    IF contains_inclusive(cut, a) THEN [st |-> "ok", pieces |-> <<>>]
    ELSE IF contains_exclusive(a, cut)
        THEN [st |-> "ok", pieces |-> << <<a[1], cut[2]>>, <<cut[1], a[2]>> >>]
    ELSE IF a[2] > cut[2] THEN [st |-> "ok", pieces |-> << <<cut[2], a[2]>> >>]
    ELSE IF a[1] < cut[1] THEN [st |-> "ok", pieces |-> << <<a[1], cut[1]>> >>]
    ELSE [st |-> "panic", pieces |-> <<>>]

\* Ranging::remove with the right-trim piece ending at cut.1 instead of cut.0.
range_remove_upper_bug(a, cut) ==
    IF contains_inclusive(cut, a) THEN [st |-> "ok", pieces |-> <<>>]
    ELSE IF contains_exclusive(a, cut)
        THEN [st |-> "ok", pieces |-> << <<a[1], cut[1]>>, <<cut[2], a[2]>> >>]
    ELSE IF a[2] > cut[2] THEN [st |-> "ok", pieces |-> << <<cut[2], a[2]>> >>]
    ELSE IF a[1] < cut[1] THEN [st |-> "ok", pieces |-> << <<a[1], cut[2]>> >>]
    ELSE [st |-> "panic", pieces |-> <<>>]

\* Ranging::remove with the left-trim piece starting at cut.0 instead of cut.1.
range_remove_bug(a, cut) ==
    IF contains_inclusive(cut, a) THEN [st |-> "ok", pieces |-> <<>>]
    ELSE IF contains_exclusive(a, cut)
        THEN [st |-> "ok", pieces |-> << <<a[1], cut[1]>>, <<cut[2], a[2]>> >>]
    ELSE IF a[2] > cut[2] THEN [st |-> "ok", pieces |-> << <<cut[1], a[2]>> >>]
    ELSE IF a[1] < cut[1] THEN [st |-> "ok", pieces |-> << <<a[1], cut[1]>> >>]
    ELSE [st |-> "panic", pieces |-> <<>>]

\* Ranging::remove: the pieces of a left by cut, or a panic ("Unknown state").
range_remove(a, cut) ==
    IF contains_inclusive(cut, a) THEN [st |-> "ok", pieces |-> <<>>]
    ELSE IF contains_exclusive(a, cut)
        THEN [st |-> "ok", pieces |-> << <<a[1], cut[1]>>, <<cut[2], a[2]>> >>]
    ELSE IF a[2] > cut[2] THEN [st |-> "ok", pieces |-> << <<cut[2], a[2]>> >>]
    ELSE IF a[1] < cut[1] THEN [st |-> "ok", pieces |-> << <<a[1], cut[1]>> >>]
    ELSE [st |-> "panic", pieces |-> <<>>]

(***************************************************************************)
(* Vec<i32> primitives used by RangeSet, with their panics.                *)
(***************************************************************************)
\* Outcome of a mutating call: the vector, how the call ended
\* ("ok", "panic", or "overflow" for unbounded recursion), and the number
\* of "SLOW" lines the call printed.
Res(s, st, n) == [v |-> s, st |-> st, slow |-> n]

\* *self.0.get_mut(i).unwrap() = x
vec_set(s, i, x) ==
    IF i < Len(s) THEN Res([s EXCEPT ![i + 1] = x], "ok", 0) ELSE Res(s, "panic", 0)

\* The two boundaries written over s[i] and s[i + 1] instead of inserted
\* before them.
vec_insert_pair_bug(s, i, lo, hi) ==
    IF i + 1 < Len(s)
        THEN Res([s EXCEPT ![i + 1] = lo, ![i + 2] = hi], "ok", 0)
        ELSE Res(s, "panic", 0)

\* self.0.insert(i, hi); self.0.insert(i, lo)
vec_insert_pair(s, i, lo, hi) ==
    IF i <= Len(s)
        THEN Res(SubSeq(s, 1, i) \o <<lo, hi>> \o SubSeq(s, i + 1, Len(s)), "ok", 0)
        ELSE Res(s, "panic", 0)

\* self.0.remove(i) once only: the boundary after it stays behind.
vec_remove_pair_bug(s, i) ==
    IF i < 0 \/ i >= Len(s) THEN Res(s, "panic", 0)
    ELSE Res(SubSeq(s, 1, i) \o SubSeq(s, i + 2, Len(s)), "ok", 0)

\* self.0.remove(i); self.0.remove(i)
vec_remove_pair(s, i) ==
    IF i < 0 \/ i >= Len(s) THEN Res(s, "panic", 0)
    ELSE IF i + 1 >= Len(s) THEN Res(SubSeq(s, 1, i), "panic", 0)
    ELSE Res(SubSeq(s, 1, i) \o SubSeq(s, i + 3, Len(s)), "ok", 0)

(***************************************************************************)
(* Boundary classifier                                                     *)
(***************************************************************************)
\* <[i32]>::binary_search as the standard library computes it: halve
\* [left, right) around mid = left + size / 2 until a hit or left = right.
RECURSIVE binary_search_loop(_, _, _, _)
binary_search_loop(s, n, left, right) ==
    IF left < right
        THEN LET mid == left + ((right - left) \div 2) IN
             IF At(s, mid) < n THEN binary_search_loop(s, n, mid + 1, right)
             ELSE IF At(s, mid) > n THEN binary_search_loop(s, n, left, mid)
             ELSE [index |-> mid, hit_n |-> TRUE]
        ELSE [index |-> left, hit_n |-> FALSE]

binary_search(s, n) == binary_search_loop(s, n, 0, Len(s))

\* The classifier counting an exact hit on a high boundary as in range.
PositionReport_bug(value) ==
    LET index == value.index
        hit_n == value.hit_n
        is_low == index % 2 = 0
    IN  [occupied |-> hit_n,
         in_range |-> (~hit_n /\ ~is_low) \/ hit_n,
         range_start_index |-> IF is_low THEN index ELSE index - 1,
         index |-> index]

\* impl From<Result<usize, usize>> for PositionReport
PositionReport(value) ==
    LET index == value.index
        hit_n == value.hit_n
        is_low == index % 2 = 0
    IN  [occupied |-> hit_n,
         in_range |-> (~hit_n /\ ~is_low) \/ (hit_n /\ is_low),
         range_start_index |-> IF is_low THEN index ELSE index - 1,
         index |-> index]

position_report(s, n) == PositionReport(binary_search(s, n))

(***************************************************************************)
(* Queries                                                                 *)
(***************************************************************************)
len(s) == Len(s) \div 2

is_in_range(s, n) == position_report(s, n).in_range

\* RangeIterator::next collected: consecutive pairs until get() is None.
RECURSIVE iter_ranges_from(_, _)
iter_ranges_from(s, index) ==
    IF index + 1 < Len(s)
        THEN << <<At(s, index), At(s, index + 1)>> >> \o iter_ranges_from(s, index + 2)
        ELSE <<>>

iter_ranges(s) == iter_ranges_from(s, 0)

RECURSIVE sum_sizes(_)
sum_sizes(rs) == IF rs = <<>> THEN 0 ELSE range_size(Head(rs)) + sum_sizes(Tail(rs))

size(s) == sum_sizes(iter_ranges(s))

RECURSIVE overlapping_ranges_loop(_, _, _)

\* The while loop stopping one boundary early.
overlapping_ranges_loop_bug(s, cur_index, stop) ==
    IF cur_index + 1 < stop /\ cur_index + 1 < Len(s)
        THEN << <<cur_index, At(s, cur_index), At(s, cur_index + 1)>> >>
             \o overlapping_ranges_loop(s, cur_index + 2, stop)
        ELSE <<>>

\* The while loop of overlapping_ranges.
overlapping_ranges_loop(s, cur_index, stop) ==
    IF cur_index < stop /\ cur_index + 1 < Len(s)
        THEN << <<cur_index, At(s, cur_index), At(s, cur_index + 1)>> >>
             \o overlapping_ranges_loop(s, cur_index + 2, stop)
        ELSE <<>>

\* overlapping_ranges stopping at the index of the left end instead of the
\* index of the right end.
overlapping_ranges_stop_bug(s, range) ==
    LET left_index == position_report(s, range[1])
        right_index == position_report(s, range[2])
    IN  overlapping_ranges_loop(s, left_index.range_start_index, left_index.index)

\* overlapping_ranges walking from the range of the right end instead of the
\* range of the left end.
overlapping_ranges_bug(s, range) ==
    LET left_index == position_report(s, range[1])
        right_index == position_report(s, range[2])
    IN  overlapping_ranges_loop(s, right_index.range_start_index, right_index.index)

overlapping_ranges(s, range) ==
    LET left_index == position_report(s, range[1])
        right_index == position_report(s, range[2])
    IN  overlapping_ranges_loop(s, left_index.range_start_index, right_index.index)

(***************************************************************************)
(* RangeSet::insert                                                        *)
(*                                                                         *)
(* Each block of the routine is one definition; a block either returns     *)
(* (done, with the outcome of the call) or falls through to the next one.  *)
(***************************************************************************)
Done(r) == [done |-> TRUE, r |-> r]

Fallthrough == [done |-> FALSE, r |-> Res(<<>>, "ok", 0)]

\* let right_index_hit_marker = !right_index.in_range && right_index.occupied
right_index_hit_marker(right_index) == ~right_index.in_range /\ right_index.occupied

\* "We're inserting beyond any existing range, or the vector is simply empty"
insert_beyond_end(s, new_range, left_index, right_index) ==
    IF left_index.index = Len(s) \/ Len(s) = 0
        THEN Done(Res(s \o <<new_range[1], new_range[2]>>, "ok", 0))
        ELSE Fallthrough

\* Insert before first range, with the two boundaries in the wrong order.
insert_before_first_bug(s, new_range, left_index, right_index) ==
    IF left_index.index = 0 /\ right_index.index = 0 /\ ~right_index.in_range
        THEN Done(vec_insert_pair(s, 0, new_range[2], new_range[1]))
        ELSE Fallthrough

\* "Insert before first range"
insert_before_first(s, new_range, left_index, right_index) ==
    IF left_index.index = 0 /\ right_index.index = 0 /\ ~right_index.in_range
        THEN Done(vec_insert_pair(s, 0, new_range[1], new_range[2]))
        ELSE Fallthrough

\* "Left side is an exact hit on the last range and the new range extends
\* beyond the array": *self.0.last_mut().unwrap() = new_range.1
insert_extend_last(s, new_range, left_index, right_index) ==
    IF /\ left_index.in_range
       /\ right_index.index = Len(s)
       /\ left_index.range_start_index + 2 = right_index.range_start_index
        THEN Done(vec_set(s, Len(s) - 1, new_range[2]))
        ELSE Fallthrough

\* if left_index.index + 1 == right_index.index { ... }
insert_adjacent_slots(s, new_range, left_index, right_index) ==
    IF left_index.index + 1 = right_index.index
        THEN IF ~left_index.in_range
                /\ (right_index.in_range \/ right_index_hit_marker(right_index))
                 THEN Done(vec_set(s, left_index.range_start_index, new_range[1]))
             ELSE IF (left_index.in_range /\ right_index.in_range)
                     \/ right_index_hit_marker(right_index)
                 THEN Done(Res(s, "ok", 0))
             ELSE Fallthrough
        ELSE Fallthrough

\* The same-slot block with "no overlap with anything" tested with || for &&.
insert_same_slot_bug(s, new_range, left_index, right_index) ==
    IF left_index.index = right_index.index
        THEN IF left_index.occupied /\ ~left_index.in_range
                 THEN Done(vec_set(s, left_index.index, new_range[2]))
             ELSE IF right_index.occupied /\ right_index.in_range
                 THEN Done(vec_set(s, right_index.index, new_range[2]))
             ELSE IF ~left_index.in_range \/ ~right_index.in_range
                 THEN Done(vec_insert_pair(s, left_index.index,
                                           new_range[1], new_range[2]))
             ELSE IF left_index.in_range /\ right_index.in_range
                 THEN Done(Res(s, "ok", 0))
             ELSE IF left_index.in_range
                     /\ (right_index.in_range
                         \/ (right_index.occupied /\ ~right_index.in_range))
                 THEN Done(Res(s, "ok", 0))
             ELSE Fallthrough
        ELSE Fallthrough

\* if left_index.index == right_index.index { ... }
insert_same_slot(s, new_range, left_index, right_index) ==
    IF left_index.index = right_index.index
        THEN IF left_index.occupied /\ ~left_index.in_range
                 THEN Done(vec_set(s, left_index.index, new_range[2]))
             ELSE IF right_index.occupied /\ right_index.in_range
                 THEN Done(vec_set(s, right_index.index, new_range[2]))
             ELSE IF ~left_index.in_range /\ ~right_index.in_range
                 THEN Done(vec_insert_pair(s, left_index.index,
                                           new_range[1], new_range[2]))
             ELSE IF left_index.in_range /\ right_index.in_range
                 THEN Done(Res(s, "ok", 0))
             ELSE IF left_index.in_range
                     /\ (right_index.in_range
                         \/ (right_index.occupied /\ ~right_index.in_range))
                 THEN Done(Res(s, "ok", 0))
             ELSE Fallthrough
        ELSE Fallthrough

\* if left_index.range_start_index + 2 == right_index.range_start_index { ... }
insert_sequential_ranges(s, new_range, left_index, right_index) ==
    IF left_index.range_start_index + 2 = right_index.range_start_index
        THEN IF /\ \/ (left_index.occupied /\ ~left_index.in_range)
                   \/ left_index.in_range
                   \/ left_index.index = 0
                /\ (right_index.in_range \/ right_index_hit_marker(right_index))
                 THEN Done(vec_remove_pair(s, left_index.range_start_index + 1))
             ELSE IF ~left_index.in_range /\ ~left_index.occupied
                     /\ ~right_index.in_range
                 THEN LET first == vec_set(s, left_index.range_start_index,
                                           new_range[1])
                      IN  IF first.st = "ok"
                              THEN Done(vec_set(first.v,
                                                left_index.range_start_index + 1,
                                                new_range[2]))
                              ELSE Done(first)
             ELSE Fallthrough
        ELSE Fallthrough

\* The extend-end block writing the new high at range_start_index.
insert_extend_end_bug(s, new_range, left_index, right_index) ==
    IF /\ left_index.index + 1 = right_index.index
       /\ ~right_index.in_range
       /\ left_index.occupied
       /\ ~left_index.in_range
        THEN Done(vec_set(s, left_index.range_start_index, new_range[2]))
        ELSE Fallthrough

\* if left_index.index + 1 == right_index.index && !right_index.in_range { ... }
insert_extend_end(s, new_range, left_index, right_index) ==
    IF /\ left_index.index + 1 = right_index.index
       /\ ~right_index.in_range
       /\ left_index.occupied
       /\ ~left_index.in_range
        THEN Done(vec_set(s, left_index.index, new_range[2]))
        ELSE Fallthrough

\* The for loop of the fallback: fold the overlaps into the accumulator and
\* remove each one's boundary pair at overlap.0 - remove_counter.
RECURSIVE insert_slow_loop(_, _, _, _)
insert_slow_loop(s, overlapping, remove_counter, range_accumelator) ==
    IF overlapping = <<>>
        THEN [v |-> s, st |-> "ok", acc |-> range_accumelator]
        ELSE LET overlap == Head(overlapping)
                 acc == merge(range_accumelator, <<overlap[2], overlap[3]>>)
                 removed == vec_remove_pair(s, overlap[1] - remove_counter)
             IN  IF removed.st = "ok"
                     THEN insert_slow_loop(removed.v, Tail(overlapping),
                                           remove_counter + 2, acc)
                     ELSE [v |-> removed.v, st |-> "panic", acc |-> acc]

RECURSIVE insert(_, _)

\* The fallback: println!("SLOW ..."), drop the overlapping ranges and
\* re-insert the merged range.  With no overlapping range the recursive call
\* repeats this one exactly and the recursion never ends.
insert_slow(s, new_range) ==
    LET overlapping == overlapping_ranges(s, new_range)
        folded == insert_slow_loop(s, overlapping, 0, new_range)
    IN  IF folded.st # "ok" THEN Res(folded.v, "panic", 1)
        ELSE IF overlapping = <<>> THEN Res(s, "overflow", 1)
        ELSE LET again == insert(folded.v, folded.acc)
             IN  Res(again.v, again.st, again.slow + 1)

insert(s, new_range) ==
    LET left_index == position_report(s, new_range[1])
        right_index == position_report(s, new_range[2])
        b1 == insert_beyond_end(s, new_range, left_index, right_index)
        b2 == insert_before_first(s, new_range, left_index, right_index)
        b3 == insert_extend_last(s, new_range, left_index, right_index)
        b4 == insert_adjacent_slots(s, new_range, left_index, right_index)
        b5 == insert_same_slot(s, new_range, left_index, right_index)
        b6 == insert_sequential_ranges(s, new_range, left_index, right_index)
        b7 == insert_extend_end(s, new_range, left_index, right_index)
    IN  IF b1.done THEN b1.r
        ELSE IF b2.done THEN b2.r
        ELSE IF b3.done THEN b3.r
        ELSE IF b4.done THEN b4.r
        ELSE IF b5.done THEN b5.r
        ELSE IF b6.done THEN b6.r
        ELSE IF b7.done THEN b7.r
        ELSE insert_slow(s, new_range)

(***************************************************************************)
(* RangeSet::remove                                                        *)
(***************************************************************************)
\* The single-range block removing the exact match one boundary too far.
remove_single_range_bug(s, cut, left_index, right_index) ==
    IF left_index.range_start_index = right_index.range_start_index
        THEN IF left_index.range_start_index >= Len(s)
                 THEN Done(Res(s, "ok", 0))
             ELSE IF left_index.range_start_index + 1 >= Len(s)
                 THEN Done(Res(s, "panic", 0))
             ELSE LET low == At(s, left_index.range_start_index)
                      high == At(s, left_index.range_start_index + 1)
                  IN  IF ~overlaps(<<low, high>>, cut)
                          THEN Done(Res(s, "ok", 0))
                      ELSE IF left_index.occupied /\ left_index.in_range
                              /\ right_index.occupied /\ ~right_index.in_range
                          THEN Done(vec_remove_pair(s, left_index.index + 1))
                      ELSE IF left_index.occupied /\ left_index.in_range
                              /\ high > cut[2]
                          THEN Done(vec_set(s, left_index.range_start_index, cut[2]))
                      ELSE IF contains_exclusive(cut, <<low, high>>)
                          THEN Done(vec_remove_pair(s, left_index.index))
                      ELSE Fallthrough
        ELSE Fallthrough

\* if left_index.range_start_index == right_index.range_start_index { ... }
remove_single_range(s, cut, left_index, right_index) ==
    IF left_index.range_start_index = right_index.range_start_index
        THEN IF left_index.range_start_index >= Len(s)
                 THEN Done(Res(s, "ok", 0))
             ELSE IF left_index.range_start_index + 1 >= Len(s)
                 THEN Done(Res(s, "panic", 0))
             ELSE LET low == At(s, left_index.range_start_index)
                      high == At(s, left_index.range_start_index + 1)
                  IN  IF ~overlaps(<<low, high>>, cut)
                          THEN Done(Res(s, "ok", 0))
                      ELSE IF left_index.occupied /\ left_index.in_range
                              /\ right_index.occupied /\ ~right_index.in_range
                          THEN Done(vec_remove_pair(s, left_index.index))
                      ELSE IF left_index.occupied /\ left_index.in_range
                              /\ high > cut[2]
                          THEN Done(vec_set(s, left_index.range_start_index, cut[2]))
                      ELSE IF contains_exclusive(cut, <<low, high>>)
                          THEN Done(vec_remove_pair(s, left_index.index))
                      ELSE Fallthrough
        ELSE Fallthrough

\* ranges.iter().for_each(...): remove each overlapping pair at
\* index - remove_count and collect what Ranging::remove leaves of it.
RECURSIVE remove_scan_loop(_, _, _, _, _)
remove_scan_loop(s, ranges, remove_count, new_to_insert, cut) ==
    IF ranges = <<>>
        THEN [v |-> s, st |-> "ok", new_to_insert |-> new_to_insert]
        ELSE LET entry == Head(ranges)
                 removed == vec_remove_pair(s, entry[1] - remove_count)
                 rest == range_remove(<<entry[2], entry[3]>>, cut)
             IN  IF removed.st # "ok" \/ rest.st # "ok"
                     THEN [v |-> removed.v, st |-> "panic",
                           new_to_insert |-> new_to_insert]
                     ELSE remove_scan_loop(removed.v, Tail(ranges), remove_count + 2,
                                           new_to_insert \o rest.pieces, cut)

\* new_to_insert.into_iter().for_each(|r| self.insert(r))
RECURSIVE remove_reinsert(_, _, _)
remove_reinsert(s, new_to_insert, printed) ==
    IF new_to_insert = <<>>
        THEN Res(s, "ok", printed)
        ELSE LET one == insert(s, Head(new_to_insert))
             IN  IF one.st = "ok"
                     THEN remove_reinsert(one.v, Tail(new_to_insert),
                                          printed + one.slow)
                     ELSE Res(one.v, one.st, printed + one.slow)

\* "Complex situation, just scan, remove and re-insert"
remove_scan(s, cut) ==
    LET scanned == remove_scan_loop(s, overlapping_ranges(s, cut), 0, <<>>, cut)
    IN  IF scanned.st = "ok"
            THEN remove_reinsert(scanned.v, scanned.new_to_insert, 0)
            ELSE Res(scanned.v, "panic", 0)

remove(s, cut) ==
    LET left_index == position_report(s, cut[1])
        right_index == position_report(s, cut[2])
        single == remove_single_range(s, cut, left_index, right_index)
    IN  IF Len(s) = left_index.index THEN Res(s, "ok", 0)
        ELSE IF single.done THEN single.r
        ELSE remove_scan(s, cut)

(***************************************************************************)
(* The program: one RangeSet, mutated by a caller's insert and remove      *)
(* calls.                                                                  *)
(***************************************************************************)
VARIABLES
    v,       \* self.0, the stored boundary sequence
    status,  \* "ok" while the program runs, "panic"/"overflow" once it died
    op,      \* the last call made: "none", "insert" or "remove"
    arg,     \* the range passed to the last call
    pre,     \* self.0 as it was when the last call was made
    slow,    \* number of "SLOW" lines the last call printed
    ref,     \* the naive reference model: the integers covered so far
    out,     \* what the last call returned; <<>> stands for ()
    recv,    \* the (i32, i32) a Ranging method is called on
    log      \* the distinct ranges a logging caller has inserted so far

vars == <<v, status, op, arg, pre, slow, ref, out, recv, log>>

\* The integers of the half-open range [low, high).
Ints(r) == {x \in Values : r[1] <= x /\ x < r[2]}

\* RangeSet::default()
Init ==
    /\ v = <<>>
    /\ status = "ok"
    /\ op = "none"
    /\ arg = <<0, 0>>
    /\ pre = <<>>
    /\ slow = 0
    /\ ref = {}
    /\ out = <<>>
    /\ recv = <<0, 0>>
    /\ log = {}

Insert ==
    /\ status = "ok"
    /\ \E new_range \in Ranges :
        \E r \in {insert(v, new_range)} :
            /\ v' = r.v
            /\ status' = r.st
            /\ slow' = r.slow
            /\ op' = "insert"
            /\ arg' = new_range
            /\ pre' = v
            /\ ref' = ref \cup Ints(new_range)
            /\ out' = <<>>
            /\ UNCHANGED <<recv, log>>

Remove ==
    /\ status = "ok"
    /\ \E cut \in Ranges :
        \E r \in {remove(v, cut)} :
            /\ v' = r.v
            /\ status' = r.st
            /\ slow' = r.slow
            /\ op' = "remove"
            /\ arg' = cut
            /\ pre' = v
            /\ ref' = (ref \ Ints(cut))
            /\ out' = <<>>
            /\ UNCHANGED <<recv, log>>

Next == Insert \/ Remove

Spec == Init /\ [][Next]_vars

\* A caller that only ever inserts.
NextInsert == Insert

SpecInsert == Init /\ [][NextInsert]_vars

\* The integers a caller probes is_in_range with: the domain and one value
\* either side.
Probe == (0 - 1)..(MaxVal + 1)

\* pub fn is_in_range(&self, n: i32) -> bool
IsInRange ==
    /\ status = "ok"
    /\ \E n \in Probe :
        /\ out' = is_in_range(v, n)
        /\ op' = "is_in_range"
        /\ arg' = n
        /\ pre' = v
        /\ slow' = 0
        /\ UNCHANGED <<v, status, ref, recv, log>>

\* pub fn overlapping_ranges(&self, range: (i32, i32)) -> Vec<(usize, i32, i32)>
OverlappingRanges ==
    /\ status = "ok"
    /\ \E range \in Ranges :
        /\ out' = overlapping_ranges(v, range)
        /\ op' = "overlapping_ranges"
        /\ arg' = range
        /\ pre' = v
        /\ slow' = 0
        /\ UNCHANGED <<v, status, ref, recv, log>>

\* A caller that builds a set by inserts and queries it.
NextQuery == Insert \/ IsInRange \/ OverlappingRanges

SpecQuery == Init /\ [][NextQuery]_vars

(***************************************************************************)
(* The interval arithmetic on its own: one Ranging method called on a pair *)
(* of (i32, i32) values, well-formed or not.                               *)
(***************************************************************************)
Pairs == Values \X Values

InitRanging ==
    /\ v = <<>>
    /\ status = "ok"
    /\ op = "none"
    /\ arg \in Pairs
    /\ pre = <<>>
    /\ slow = 0
    /\ ref = {}
    /\ out = <<>>
    /\ recv \in Pairs
    /\ log = {}

\* recv.overlaps(&arg)
RangingOverlaps ==
    /\ op = "none"
    /\ op' = "overlaps"
    /\ out' = overlaps(recv, arg)
    /\ UNCHANGED <<v, status, arg, pre, slow, ref, recv, log>>

\* recv.remove(&arg)
RangingRemove ==
    /\ op = "none"
    /\ op' = "range_remove"
    /\ out' = range_remove(recv, arg).pieces
    /\ status' = range_remove(recv, arg).st
    /\ UNCHANGED <<v, arg, pre, slow, ref, recv, log>>

NextRanging == RangingOverlaps \/ RangingRemove

SpecRanging == InitRanging /\ [][NextRanging]_vars

(***************************************************************************)
(* A caller that only inserts and keeps a log of the distinct ranges it    *)
(* has passed to insert.                                                   *)
(***************************************************************************)
\* The most distinct ranges the logging caller passes.
MaxLog == 3

InsertLogged ==
    /\ status = "ok"
    /\ \E new_range \in Ranges :
        \E r \in {insert(v, new_range)} :
            /\ Cardinality(log \cup {new_range}) <= MaxLog
            /\ v' = r.v
            /\ status' = r.st
            /\ slow' = r.slow
            /\ op' = "insert"
            /\ arg' = new_range
            /\ pre' = v
            /\ ref' = ref \cup Ints(new_range)
            /\ out' = <<>>
            /\ log' = log \cup {new_range}
            /\ UNCHANGED recv

NextLog == InsertLogged

SpecLog == Init /\ [][NextLog]_vars

(***************************************************************************)
(* A caller that passes any pair of integers to insert and remove: empty   *)
(* (low == high) and malformed (low > high) ranges as well as well-formed  *)
(* ones.  Neither method validates its argument.  No reference model is    *)
(* kept for such calls.                                                    *)
(***************************************************************************)
\* The caller stops once more than MaxStored pairs are stored.
MaxStored == 1

InsertAny ==
    /\ status = "ok"
    /\ len(v) <= MaxStored
    /\ \E new_range \in Pairs :
        \E r \in {insert(v, new_range)} :
            /\ v' = r.v
            /\ status' = r.st
            /\ slow' = r.slow
            /\ op' = "insert"
            /\ arg' = new_range
            /\ pre' = v
            /\ out' = <<>>
            /\ UNCHANGED <<ref, recv, log>>

RemoveAny ==
    /\ status = "ok"
    /\ len(v) <= MaxStored
    /\ \E cut \in Pairs :
        \E r \in {remove(v, cut)} :
            /\ v' = r.v
            /\ status' = r.st
            /\ slow' = r.slow
            /\ op' = "remove"
            /\ arg' = cut
            /\ pre' = v
            /\ out' = <<>>
            /\ UNCHANGED <<ref, recv, log>>

NextAny == InsertAny \/ RemoveAny

SpecAny == Init /\ [][NextAny]_vars

(***************************************************************************)
(* Vocabulary of the properties                                            *)
(***************************************************************************)
StrictlyIncreasing(s) == \A i \in 1..(Len(s) - 1) : s[i] < s[i + 1]

\* A normalized boundary sequence: even length, strictly increasing.
Normalized(s) == Len(s) % 2 = 0 /\ StrictlyIncreasing(s)

\* The 0-based positions of the stored intervals of s.
Slots(s) == 0..(len(s) - 1)

Low(s, k) == At(s, 2 * k)

High(s, k) == At(s, 2 * k + 1)

\* The last call was insert / remove on a normalized set.
InsertedIntoNormalized == op = "insert" /\ Normalized(pre)

RemovedFromNormalized == op = "remove" /\ Normalized(pre)

\* s without the two boundaries at 0-based positions i and i + 1.
WithoutPair(s, i) == SubSeq(s, 1, i) \o SubSeq(s, i + 3, Len(s))

(***************************************************************************)
(* Properties                                                              *)
(***************************************************************************)
\* C1: starting from the empty set, after every insert or remove of a
\* non-empty well-formed range the stored boundary sequence is strictly
\* increasing.
C1_StrictlyIncreasing == StrictlyIncreasing(v)

\* C2: after every sequence of insert and remove calls, is_in_range(x) equals
\* membership of x in the reference set that adds [low, high) on insert and
\* deletes [low, high) on remove, for every integer x.
C2_MatchesReference == \A x \in Probe : is_in_range(v, x) <=> x \in ref

\* C3: after insert(new) on a normalized set, is_in_range(x) is true for every
\* integer x with new.low <= x < new.high.
C3_InsertCoversNew ==
    InsertedIntoNormalized => \A x \in Ints(arg) : is_in_range(v, x)

\* C4: after remove(cut) on a normalized set the call has returned and
\* is_in_range(x) holds exactly for the integers x that were covered before
\* the call and lie outside [cut.low, cut.high).
C4_RemoveUncoversExactlyCut ==
    RemovedFromNormalized =>
        /\ status = "ok"
        /\ \A x \in Probe :
            is_in_range(v, x) <=> (is_in_range(pre, x) /\ x \notin Ints(arg))

\* C4 witness: three stored intervals, a cut that starts at or below the
\* first and ends between the second's high and the third's low, and only the
\* third interval left.
C4_Witness ==
    /\ RemovedFromNormalized
    /\ len(pre) = 3
    /\ arg[1] <= Low(pre, 0)
    /\ High(pre, 1) <= arg[2]
    /\ arg[2] <= Low(pre, 2)
    /\ v = <<Low(pre, 2), High(pre, 2)>>

\* C5: insert is idempotent: a second insert(a) right after insert(a), on a
\* set built by inserts only, leaves len() and size() as the first call left
\* them.
C5_InsertIdempotent ==
    [][(op = "insert" /\ op' = "insert" /\ arg' = arg)
        => (len(v') = len(v) /\ size(v') = size(v))]_vars

\* C6: inserting a range whose high equals the low of a stored interval and
\* whose low lies in the gap before that interval (or before every stored
\* boundary) lowers that interval's low to the new range's low and changes
\* nothing else.
C6_MergeLeft ==
    InsertedIntoNormalized =>
        \A k \in Slots(pre) :
            (/\ arg[2] = Low(pre, k)
             /\ (k = 0 \/ High(pre, k - 1) < arg[1]))
            => v = [pre EXCEPT ![2 * k + 1] = arg[1]]

\* C7: inserting a range that exactly fills the gap between two neighbouring
\* stored intervals merges the three into one interval: the two boundaries of
\* the gap disappear, len() decreases by exactly 1 and every integer covered
\* before is still covered.
C7_FillGap ==
    InsertedIntoNormalized =>
        \A k \in Slots(pre) :
            (/\ k + 1 \in Slots(pre)
             /\ arg[1] = High(pre, k)
             /\ arg[2] = Low(pre, k + 1))
            => /\ v = WithoutPair(pre, 2 * k + 1)
               /\ len(v) = len(pre) - 1
               /\ \A x \in Probe : is_in_range(pre, x) => is_in_range(v, x)

\* The stored intervals of s that share at least one integer with r.
Overlapped(s, r) == {k \in Slots(s) : Low(s, k) < r[2] /\ r[1] < High(s, k)}

\* C8: after insert(new) on a normalized set where new overlaps two or more
\* stored intervals, the set is normalized, one stored interval holds new and
\* all the overlapped intervals, and the covered integers are exactly those
\* covered before plus those of new.
C8_MergeOverlapped ==
    (InsertedIntoNormalized /\ Cardinality(Overlapped(pre, arg)) >= 2) =>
        /\ Normalized(v)
        /\ \E k \in Slots(v) :
            /\ Low(v, k) <= arg[1]
            /\ arg[2] <= High(v, k)
            /\ \A j \in Overlapped(pre, arg) :
                Low(v, k) <= Low(pre, j) /\ High(pre, j) <= High(v, k)
        /\ \A x \in Probe :
            is_in_range(v, x) <=> (is_in_range(pre, x) \/ x \in Ints(arg))

\* C9: inserting a range whose low equals the high of a stored interval and
\* whose high lies in the gap after that interval (or beyond the last stored
\* boundary) extends that interval in place to the new high: no pair is
\* added, so len() is unchanged by the touching insert.
C9_ExtendRight ==
    InsertedIntoNormalized =>
        \A k \in Slots(pre) :
            (/\ arg[1] = High(pre, k)
             /\ (k + 1 \in Slots(pre) => arg[2] < Low(pre, k + 1)))
            => /\ status = "ok"
               /\ v = [pre EXCEPT ![2 * k + 2] = arg[2]]
               /\ len(v) = len(pre)

\* C9 witness: one stored interval (a, b), insert((b, c)), sole interval (a, c).
C9_Witness ==
    /\ InsertedIntoNormalized
    /\ len(pre) = 1
    /\ arg[1] = High(pre, 0)
    /\ v = <<Low(pre, 0), arg[2]>>

\* C10: if one stored interval already contains the whole of new, insert(new)
\* leaves the stored boundary sequence unchanged.
C10_ContainedIsNoop ==
    InsertedIntoNormalized =>
        ((\E k \in Slots(pre) : Low(pre, k) <= arg[1] /\ arg[2] <= High(pre, k))
            => (status = "ok" /\ v = pre))

\* C10 witness: new ends exactly at the high of the second of two stored
\* intervals and starts inside it; the sequence is what it was.
C10_Witness ==
    /\ InsertedIntoNormalized
    /\ len(pre) = 2
    /\ Low(pre, 1) < arg[1]
    /\ arg[2] = High(pre, 1)
    /\ v = pre

\* s with the pair r put in front of 0-based position i.
WithPairAt(s, i, r) == SubSeq(s, 1, i) \o r \o SubSeq(s, i + 1, Len(s))

\* The stored intervals of s that end before r starts.
Before(s, r) == {k \in Slots(s) : High(s, k) < r[1]}

\* r neither overlaps nor touches any stored interval of s.
Apart(s, r) == \A k \in Slots(s) : High(s, k) < r[1] \/ r[2] < Low(s, k)

\* A sequence of ranges in ascending order, each ending before the next starts.
Ascending(rs) ==
    \A i, j \in 1..Len(rs) : i < j => rs[i][2] < rs[j][1]

\* C11: inserting a range that neither overlaps nor touches any stored
\* interval adds exactly one boundary pair at its sorted position and leaves
\* every existing pair unchanged, so iter_ranges() yields the intervals in
\* ascending order.
C11_DisjointInsertAddsPair ==
    (InsertedIntoNormalized /\ Apart(pre, arg)) =>
        /\ status = "ok"
        /\ v = WithPairAt(pre, 2 * Cardinality(Before(pre, arg)), arg)
        /\ len(v) = len(pre) + 1
        /\ Ascending(iter_ranges(v))

\* C11 witness: two stored intervals and a new range that ends before the
\* first one starts; the new pair is stored in front of them.
C11_Witness ==
    /\ InsertedIntoNormalized
    /\ len(pre) = 2
    /\ arg[2] < Low(pre, 0)
    /\ v = arg \o pre
    /\ iter_ranges(v) = <<arg, <<Low(pre, 0), High(pre, 0)>>,
                          <<Low(pre, 1), High(pre, 1)>> >>

\* C12: membership is half-open: on a normalized set (the empty one included)
\* is_in_range(n) is true iff some stored pair (low, high) has
\* low <= n < high.
C12_HalfOpenMembership ==
    (op = "is_in_range" /\ Normalized(v)) =>
        (out <=> \E k \in Slots(v) : Low(v, k) <= arg /\ arg < High(v, k))

\* C12 witness: is_in_range asked for the high of the first of two stored
\* intervals answered false.
C12_Witness ==
    /\ op = "is_in_range"
    /\ Normalized(v)
    /\ len(v) = 2
    /\ arg = High(v, 0)
    /\ out = FALSE

\* The number of maximal runs of consecutive integers in the set c.
Runs(c) == Cardinality({x \in c : x - 1 \notin c})

\* C13: after any sequence of inserts into an empty set, size() is at most
\* the number of distinct integers covered by an inserted range and len() is
\* at most the number of maximal runs of consecutive covered integers.
C13_NeverOverCount ==
    /\ size(v) <= Cardinality(ref)
    /\ len(v) <= Runs(ref)

\* C14: removing a cut whose bounds are exactly the bounds of one stored
\* interval deletes that one boundary pair and leaves every other pair
\* unchanged.
C14_RemoveExactDeletesPair ==
    RemovedFromNormalized =>
        \A k \in Slots(pre) :
            arg = <<Low(pre, k), High(pre, k)>>
            => (status = "ok" /\ v = WithoutPair(pre, 2 * k))

\* C14 witness: the middle one of three stored intervals removed exactly.
C14_Witness ==
    /\ RemovedFromNormalized
    /\ len(pre) = 3
    /\ arg = <<Low(pre, 1), High(pre, 1)>>
    /\ v = <<Low(pre, 0), High(pre, 0), Low(pre, 2), High(pre, 2)>>

\* C15: when cut lies strictly inside one stored interval (low, high),
\* remove(cut) replaces it by (low, cut.low) and (cut.high, high) in that
\* order, raising len() by exactly 1 and leaving the other intervals
\* unchanged.
C15_RemoveCenterSplits ==
    RemovedFromNormalized =>
        \A k \in Slots(pre) :
            (Low(pre, k) < arg[1] /\ arg[2] < High(pre, k))
            => /\ status = "ok"
               /\ v = WithPairAt(pre, 2 * k + 1, arg)
               /\ len(v) = len(pre) + 1

\* C15 witness: the first of two stored intervals split in two by the cut.
C15_Witness ==
    /\ RemovedFromNormalized
    /\ len(pre) = 2
    /\ Low(pre, 0) < arg[1]
    /\ arg[2] < High(pre, 0)
    /\ iter_ranges(v) = << <<Low(pre, 0), arg[1]>>, <<arg[2], High(pre, 0)>>,
                           <<Low(pre, 1), High(pre, 1)>> >>

\* C16: when cut overlaps exactly one stored interval (low, high) and
\* removes only its lower part, remove(cut) leaves (cut.high, high) in its
\* place; when it removes only the upper part it leaves (low, cut.low); len()
\* and the other stored intervals are unchanged.
C16_RemoveTrims ==
    RemovedFromNormalized =>
        \A k \in Slots(pre) :
            Overlapped(pre, arg) = {k} =>
                /\ (arg[1] <= Low(pre, k) /\ arg[2] < High(pre, k))
                    => (status = "ok" /\ v = [pre EXCEPT ![2 * k + 1] = arg[2]])
                /\ (Low(pre, k) < arg[1] /\ High(pre, k) <= arg[2])
                    => (status = "ok" /\ v = [pre EXCEPT ![2 * k + 2] = arg[1]])

\* C16 witness: the cut starts inside the first of two stored intervals and
\* ends past its high; only that interval's high moved.
C16_Witness ==
    /\ RemovedFromNormalized
    /\ len(pre) = 2
    /\ Overlapped(pre, arg) = {0}
    /\ Low(pre, 0) < arg[1]
    /\ High(pre, 0) < arg[2]
    /\ v = <<Low(pre, 0), arg[1], Low(pre, 1), High(pre, 1)>>

\* C17: remove(cut) leaves the stored boundary sequence unchanged whenever no
\* stored interval shares an integer with cut.
C17_RemoveApartIsNoop ==
    (RemovedFromNormalized /\ Overlapped(pre, arg) = {}) =>
        (status = "ok" /\ v = pre)

\* C17 witness: a cut that starts exactly at the high of the sole stored
\* interval; the sequence is what it was.
C17_Witness ==
    /\ RemovedFromNormalized
    /\ len(pre) = 1
    /\ arg[1] = High(pre, 0)
    /\ v = pre

\* C18: on a normalized set overlapping_ranges(query) returns, in ascending
\* order, an entry (index, low, high) for every stored interval that shares
\* an integer with the query, index being the position of that interval's
\* low boundary in the stored sequence.
C18_OverlappingRangesComplete ==
    (op = "overlapping_ranges" /\ Normalized(v)) =>
        /\ \A k \in Overlapped(v, arg) :
            \E i \in 1..Len(out) : out[i] = <<2 * k, Low(v, k), High(v, k)>>
        /\ \A i \in 1..Len(out) :
            /\ out[i][1] % 2 = 0
            /\ out[i][1] + 1 < Len(v)
            /\ out[i] = <<out[i][1], At(v, out[i][1]), At(v, out[i][1] + 1)>>
        /\ \A i, j \in 1..Len(out) : i < j => out[i][1] < out[j][1]

\* C18 witness: two stored intervals, a query that starts at the low of the
\* first and ends in the gap between them: exactly one entry, for the first.
C18_Witness ==
    /\ op = "overlapping_ranges"
    /\ Normalized(v)
    /\ len(v) = 2
    /\ arg[1] = Low(v, 0)
    /\ High(v, 0) < arg[2]
    /\ arg[2] < Low(v, 1)
    /\ out = << <<0, Low(v, 0), High(v, 0)>> >>

\* C19: for all well-formed pairs a and b, overlaps(a, b) is true iff
\* a.low < b.high and b.low < a.high; ranges that only touch do not overlap.
C19_OverlapsIsHalfOpen ==
    (op = "overlaps" /\ recv[1] <= recv[2] /\ arg[1] <= arg[2]) =>
        (out <=> (recv[1] < arg[2] /\ arg[1] < recv[2]))

\* The integers covered by the ranges of the sequence rs.
IntsOfAll(rs) == UNION {Ints(rs[i]) : i \in 1..Len(rs)}

\* C20: for non-empty ranges a and cut that share an integer, the interval
\* subtraction returns 0, 1 or 2 non-empty, mutually disjoint pieces in
\* ascending order whose integers are exactly those of a that are not in cut.
C20_SubtractionIsExact ==
    (/\ op = "range_remove"
     /\ recv[1] < recv[2]
     /\ arg[1] < arg[2]
     /\ Ints(recv) \cap Ints(arg) # {}) =>
        /\ status = "ok"
        /\ Len(out) <= 2
        /\ \A i \in 1..Len(out) : out[i][1] < out[i][2]
        /\ \A i, j \in 1..Len(out) : i < j => out[i][2] <= out[j][1]
        /\ IntsOfAll(out) = Ints(recv) \ Ints(arg)

\* C20 witness: the cut takes the upper end of a, one piece is left.
C20_Witness ==
    /\ op = "range_remove"
    /\ recv[1] < arg[1]
    /\ arg[1] < arg[2]
    /\ arg[2] = recv[2]
    /\ out = << <<recv[1], arg[1]>> >>

\* C21: Ranging::remove(a, cut), called on two non-empty ranges that share no
\* integer and do not touch, panics instead of returning pieces; it returns
\* no piece that holds an integer outside a or an integer inside cut.
C21_RemoveApartPanics ==
    (/\ op = "range_remove"
     /\ recv \in Ranges
     /\ arg \in Ranges
     /\ (recv[2] < arg[1] \/ arg[2] < recv[1])) =>
        /\ status = "panic"
        /\ IntsOfAll(out) \subseteq (Ints(recv) \ Ints(arg))

\* C22: insert or remove called with a malformed range (low > high) panics or
\* aborts and leaves the stored sequence as it was; no call leaves a stored
\* pair whose low is greater than its high.
C22_MalformedFailsLoudly ==
    /\ (op \in {"insert", "remove"} /\ arg[1] > arg[2]) =>
            (status # "ok" /\ v = pre)
    /\ \A k \in Slots(v) : Low(v, k) <= High(v, k)

\* C23: insert of an empty range (low == high) into a normalized set, the
\* empty set included, leaves no stored pair with low == high.
C23_EmptyRangeNeverStored ==
    (op = "insert" /\ Normalized(pre) /\ arg[1] = arg[2]) =>
        \A k \in Slots(v) : Low(v, k) # High(v, k)

\* The sum of the lengths (high - low) of the ranges of the set rs.
RECURSIVE SumLengths(_)
SumLengths(rs) ==
    IF rs = {} THEN 0
    ELSE LET r == CHOOSE x \in rs : TRUE
         IN  (r[2] - r[1]) + SumLengths(rs \ {r})

\* C24: after any sequence of inserts of non-empty well-formed ranges into
\* the empty set, size() is non-negative and at most the sum of the lengths
\* of the distinct ranges inserted.
C24_SizeWithinInserted ==
    /\ size(v) >= 0
    /\ size(v) <= SumLengths(log)

\* C24 witness: several distinct ranges were inserted and they overlapped, so
\* the set counts fewer integers than the sum of their lengths.
C24_Witness ==
    /\ op = "insert"
    /\ Cardinality(log) >= 2
    /\ size(v) > 0
    /\ size(v) < SumLengths(log)

C26_InsertNeverUncovers ==
    InsertedIntoNormalized =>
        \A x \in Values : is_in_range(pre, x) => is_in_range(v, x)

\* C27: overlapping_ranges(query) returns only stored intervals that share at
\* least one integer with the query; an interval that merely touches the
\* query is not returned.
C27_OverlappingRangesSound ==
    (op = "overlapping_ranges" /\ Normalized(v)) =>
        \A i \in 1..Len(out) :
            Ints(<<out[i][2], out[i][3]>>) \cap Ints(arg) # {}

\* C28: every insert of a non-empty range into a normalized set terminates:
\* each pass through the fallback deletes at least one stored pair before its
\* one recursive call, so it makes no more passes than there were stored
\* intervals; every remove from a normalized set terminates as well.
C28_CallsTerminate ==
    /\ InsertedIntoNormalized =>
            /\ status # "overflow"
            /\ slow <= len(pre)
            /\ slow > 0 => len(v) <= len(pre)
    /\ RemovedFromNormalized => status # "overflow"

\* C28 witness: an insert into a normalized set that went through the
\* fallback and returned.
C28_Witness ==
    /\ InsertedIntoNormalized
    /\ slow > 0
    /\ status = "ok"
    /\ len(v) < len(pre)

\* C29: insert(new) on a normalized set leaves every stored interval that
\* neither overlaps nor touches new (its high below new.low or its low above
\* new.high) stored as the same (low, high) pair.
C29_InsertKeepsApart ==
    InsertedIntoNormalized =>
        \A k \in Slots(pre) :
            (High(pre, k) < arg[1] \/ Low(pre, k) > arg[2]) =>
                \E j \in Slots(v) :
                    Low(v, j) = Low(pre, k) /\ High(v, j) = High(pre, k)

\* C29 witness: new merged two stored intervals into one while a third
\* interval, apart from new, was stored.
C29_Witness ==
    /\ InsertedIntoNormalized
    /\ len(v) < len(pre)
    /\ \E k \in Slots(pre) : High(pre, k) < arg[1] \/ Low(pre, k) > arg[2]

\* C30: the panic!("Unknown state") that ends Ranging::remove is unreachable:
\* for every pair of integer pairs a and cut, overlapping or not, well-formed
\* or not, one of the four branches before it returns.
C30_UnknownStateUnreachable == op = "range_remove" => status = "ok"

\* C30 witness: a lies wholly below cut, without touching it, and the call
\* returns a piece from the fourth branch.
C30_Witness ==
    /\ op = "range_remove"
    /\ status = "ok"
    /\ recv[1] < recv[2]
    /\ recv[2] < arg[1]
    /\ arg[1] < arg[2]
    /\ out = << <<recv[1], arg[1]>> >>

====
